---- MODULE Spec2Model ----
(***************************************************************************)
(* State-transition core of cw-sdk.                                        *)
(*                                                                         *)
(* The repository carries two state machines:                              *)
(*   - sdk/src/state_machine.rs: `State`, in-memory maps, one store per    *)
(*     contract, contract addresses are numbers;                           *)
(*   - packages/state-machine/src/execute.rs: free functions over one      *)
(*     key/value store, a `Cached` overlay per call, contract addresses    *)
(*     derived from labels.                                                *)
(* Both are modelled.  The variable `impl` says which of the two a         *)
(* behaviour runs; the other machine's state stays at its initial value.   *)
(***************************************************************************)
EXTENDS Integers, Sequences, FiniteSets, TLC

(***************************************************************************)
(* Bounds of the model                                                     *)
(***************************************************************************)
MaxCodes == 2
MaxContracts == 2
MaxHeight == 2
MaxSeq == 2
MaxMsgs == 2

(***************************************************************************)
(* Input domains                                                           *)
(***************************************************************************)
Keys == {"k"}
Vals == {"v1", "v2"}
WasmCodes == {"wA", "wB"}
\* Labels are strings of characters
BankLabel == <<"b", "a", "n", "k">>
ALabel == <<"a">>
HackLabel == <<"c", "w", "1", "h", "a", "c", "k">>
Labels == {BankLabel, ALabel}
Senders == {"alice"}
Deployer == "deployer"
\* A deployer string that is no address
InvalidDeployer == ""
NoAdmin == "none"
NoFunds == <<>>
SomeFunds == <<[denom |-> "ucw", amount |-> "1"]>>

(***************************************************************************)
(* Maps (BTreeMap): functions with a finite domain                         *)
(***************************************************************************)
EmptyMap == [x \in {} |-> {}]

Insert(m, k, v) == [x \in (DOMAIN m) \cup {k} |-> IF x = k THEN v ELSE m[x]]

Remove(m, k) == [x \in (DOMAIN m) \ {k} |-> m[x]]

(***************************************************************************)
(* Results: Ok(value) / Err(kind) / a panic that aborts the process        *)
(***************************************************************************)
Ok(v) == [tag |-> "Ok", kind |-> "", value |-> v]

Err(k) == [tag |-> "Err", kind |-> k, value |-> <<>>]

\* An error that carries a string
ErrWith(k, s) == [tag |-> "Err", kind |-> k, value |-> s]

Panic(k) == [tag |-> "Panic", kind |-> k, value |-> <<>>]

(***************************************************************************)
(* Conversions                                                             *)
(***************************************************************************)
\* u64::to_string for the numbers the bounds allow
U64ToString(n) ==
    CASE n = 0 -> "0" [] n = 1 -> "1" [] n = 2 -> "2" [] n = 3 -> "3"
      [] n = 4 -> "4" [] n = 5 -> "5" [] n = 6 -> "6" [] n = 7 -> "7"
      [] n = 8 -> "8" [] OTHER -> "9"

\* u64::to_be_bytes: eight bytes, most significant first (the numbers of the
\* model are below 2^31, so the four high bytes are 0)
U64ToBeBytes(n) == [i \in 1..8 |-> IF i <= 4 THEN 0 ELSE (n \div (256 ^ (8 - i))) % 256]

\* sha256 is collision free on the inputs of the model: the digest is the
\* tagged preimage
Sha256(bytes) == <<"sha256", bytes>>

\* hex::encode(sha256(wasm_byte_code)) of the wasm blobs of the model
HashHex(wasm) == IF wasm = "wA" THEN "sha256hex(wA)" ELSE "sha256hex(wB)"

(***************************************************************************)
(* Contract storage and the VM                                             *)
(*                                                                         *)
(* A contract message of the model spells out what the contract code does  *)
(* when it is called with it: the storage operations it performs, in       *)
(* order, and how the call ends:                                           *)
(*   "ok"     ContractResult::Ok, response without submessages             *)
(*   "submsg" ContractResult::Ok, response.messages non-empty              *)
(*   "err"    ContractResult::Err                                          *)
(*   "trap"   the VM fails (Instance::from_code or call_* returns VmError) *)
(***************************************************************************)
EmptyStore == EmptyMap

SetOp(k, v) == [op |-> "set", key |-> k, value |-> v]

RemoveOp(k) == [op |-> "remove", key |-> k, value |-> ""]

StorageOps == {SetOp(k, v) : k \in Keys, v \in Vals} \cup {RemoveOp(k) : k \in Keys}

ContractMsg(ops, outcome) == [ops |-> ops, outcome |-> outcome]

ContractMsgs ==
    {ContractMsg(<<o>>, "ok") : o \in StorageOps}
      \cup {ContractMsg(<<SetOp(k, "v2")>>, x) : k \in Keys, x \in {"err", "trap", "submsg"}}

\* Storage::get / set / remove of the contract store
StoreGet(storage, k) == IF k \in DOMAIN storage THEN <<storage[k]>> ELSE <<>>

ApplyOp(storage, o) ==
    IF o.op = "set" THEN Insert(storage, o.key, o.value) ELSE Remove(storage, o.key)

RECURSIVE RunOps(_, _)
RunOps(storage, ops) ==
    IF ops = <<>> THEN storage ELSE RunOps(ApplyOp(storage, Head(ops)), Tail(ops))

\* The events and attributes a contract's response carries: two events, in
\* this order, the first naming what the call wrote first
ResponseEvents(msg) ==
    <<[ty |-> "wasm-1", attrs |-> <<<<"wrote", msg.ops[1].value>>>>],
      [ty |-> "wasm-2", attrs |-> <<>>]>>

\* The error string of a ContractResult::Err
ResponseError(msg) ==
    IF msg.outcome = "err" THEN <<"error", msg.ops[1].key, msg.ops[1].value>> ELSE <<>>

ResponseAttrs == <<<<"action", "done">>>>

\* A call of an entry point on a backend holding `storage`: the storage the
\* backend holds afterwards and the call's result
VmCall(storage, msg) ==
    [storage |-> RunOps(storage, msg.ops),
     vm_error |-> msg.outcome = "trap",
     is_ok |-> msg.outcome \in {"ok", "submsg"},
     messages |-> IF msg.outcome = "submsg" THEN <<"submsg">> ELSE <<>>,
     attributes |-> ResponseAttrs,
     events |-> ResponseEvents(msg),
     error |-> ResponseError(msg)]

(***************************************************************************)
(* sdk: messages                                                           *)
(***************************************************************************)
StoreCodeMsg(wasm) ==
    [ty |-> "StoreCode", wasm_byte_code |-> wasm, code_id |-> 0, contract |-> 0,
     msg |-> <<>>, funds |-> NoFunds, label |-> <<>>, admin |-> NoAdmin]

InstantiateMsg(code_id, msg, funds, label, admin) ==
    [ty |-> "Instantiate", wasm_byte_code |-> "", code_id |-> code_id, contract |-> 0,
     msg |-> msg, funds |-> funds, label |-> label, admin |-> admin]

ExecuteMsg(contract, msg, funds) ==
    [ty |-> "Execute", wasm_byte_code |-> "", code_id |-> 0, contract |-> contract,
     msg |-> msg, funds |-> funds, label |-> <<>>, admin |-> NoAdmin]

MigrateMsg(contract, code_id, msg) ==
    [ty |-> "Migrate", wasm_byte_code |-> "", code_id |-> code_id, contract |-> contract,
     msg |-> msg, funds |-> NoFunds, label |-> <<>>, admin |-> NoAdmin]

(***************************************************************************)
(* sdk: State and its private functions.  Each returns the state after the *)
(* call and the call's result.                                             *)
(***************************************************************************)
\* State::default()
SdkDefault ==
    [height |-> 0, chain_id |-> "", code_count |-> 0, contract_count |-> 0,
     accounts |-> EmptyMap, codes |-> EmptyMap, contracts |-> EmptyMap,
     stores |-> EmptyMap]

Ret(S, r) == [state |-> S, result |-> r]

Event(ty, attrs) == [ty |-> ty, attrs |-> attrs]

\* prepend putting the event behind the events
prepend_behind(event, events) == events \o <<event>>

\* Insert an event to the front of an array of events
prepend(event, events) == <<event>> \o events

\* store_code taking the code id before the count is incremented
store_code_id_before_increment(S, sender, wasm_byte_code) ==
    LET code_id == S.code_count
        S1 == [S EXCEPT !.code_count = @ + 1,
                        !.codes = Insert(@, code_id,
                                         [creator |-> sender,
                                          wasm_byte_code |-> wasm_byte_code])]
    IN Ret(S1, Ok(Event("store_code",
                        <<<<"code_id", U64ToString(code_id)>>,
                          <<"sender", sender>>,
                          <<"hash", HashHex(wasm_byte_code)>>>>)))

store_code(S, sender, wasm_byte_code) ==
    LET code_id == S.code_count + 1
        S1 == [S EXCEPT !.code_count = code_id,
                        !.codes = Insert(@, code_id,
                                         [creator |-> sender,
                                          wasm_byte_code |-> wasm_byte_code])]
    IN Ret(S1, Ok(Event("store_code",
                        <<<<"code_id", U64ToString(code_id)>>,
                          <<"sender", sender>>,
                          <<"hash", HashHex(wasm_byte_code)>>>>)))

\* instantiate_contract recording the contract without keeping its storage
instantiate_contract_no_store(S, sender, code_id, msg, funds, label, admin) ==
    IF funds # <<>> THEN Ret(S, Err("FundsUnsupported"))
    ELSE IF code_id \notin DOMAIN S.codes THEN Ret(S, Panic("codes[code_id]"))
    ELSE
      LET out == VmCall(EmptyStore, msg) IN
      IF out.vm_error THEN Ret(S, Err("Vm"))
      ELSE IF ~out.is_ok THEN Ret(S, Err("Contract"))
      ELSE IF out.messages # <<>> THEN Ret(S, Err("SubmessagesUnsupported"))
      ELSE
        LET contract_addr == S.contract_count + 1
            S1 == [S EXCEPT !.contract_count = contract_addr,
                            !.contracts = Insert(@, contract_addr,
                                                 [code_id |-> code_id,
                                                  label |-> label,
                                                  admin |-> admin])]
        IN Ret(S1, Ok(prepend(Event("instantiate_contract", <<>>), out.events)))

instantiate_contract(S, sender, code_id, msg, funds, label, admin) ==
    IF funds # <<>> THEN Ret(S, Err("FundsUnsupported"))
    ELSE IF code_id \notin DOMAIN S.codes THEN Ret(S, Panic("codes[code_id]"))
    ELSE
      LET out == VmCall(EmptyStore, msg) IN
      IF out.vm_error THEN Ret(S, Err("Vm"))
      ELSE IF ~out.is_ok THEN Ret(S, Err("Contract"))
      ELSE IF out.messages # <<>> THEN Ret(S, Err("SubmessagesUnsupported"))
      ELSE
        LET contract_addr == S.contract_count + 1
            S1 == [S EXCEPT !.contract_count = contract_addr,
                            !.contracts = Insert(@, contract_addr,
                                                 [code_id |-> code_id,
                                                  label |-> label,
                                                  admin |-> admin]),
                            !.stores = Insert(@, contract_addr, out.storage)]
            event == Event("instantiate_contract",
                           <<<<"sender", sender>>,
                             <<"code_id", U64ToString(code_id)>>,
                             <<"contract_address", U64ToString(contract_addr)>>>>
                             \o out.attributes)
        IN Ret(S1, Ok(prepend(event, out.events)))

\* execute_contract storing the recycled storage before it looks at the result
execute_contract_keeps_writes(S, sender, contract_addr, msg, funds) ==
    IF funds # <<>> THEN Ret(S, Err("FundsUnsupported"))
    ELSE IF contract_addr \notin DOMAIN S.stores THEN Ret(S, Err("ContractNotFound"))
    ELSE
      LET out == VmCall(S.stores[contract_addr], msg)
          S1 == [S EXCEPT !.stores = Insert(@, contract_addr, out.storage)]
      IN
      IF out.vm_error THEN Ret(S, Err("Vm"))
      ELSE IF ~out.is_ok THEN Ret(S1, Err("Contract"))
      ELSE IF out.messages # <<>> THEN Ret(S1, Err("SubmessagesUnsupported"))
      ELSE Ret(S1, Ok(prepend(Event("execute_contract", <<>>), out.events)))

\* execute_contract storing the recycled storage under the contract's code id
execute_contract_wrong_entry(S, sender, contract_addr, msg, funds) ==
    IF funds # <<>> THEN Ret(S, Err("FundsUnsupported"))
    ELSE IF contract_addr \notin DOMAIN S.stores THEN Ret(S, Err("ContractNotFound"))
    ELSE
      LET out == VmCall(S.stores[contract_addr], msg) IN
      IF out.vm_error THEN Ret(S, Err("Vm"))
      ELSE IF ~out.is_ok THEN Ret(S, Err("Contract"))
      ELSE IF out.messages # <<>> THEN Ret(S, Err("SubmessagesUnsupported"))
      ELSE Ret([S EXCEPT !.stores = Insert(@, S.contracts[contract_addr].code_id,
                                           out.storage)],
               Ok(prepend(Event("execute_contract", <<>>), out.events)))

\* execute_contract running the code on an empty storage when the address has
\* no store
execute_contract_no_lookup(S, sender, contract_addr, msg, funds) ==
    IF funds # <<>> THEN Ret(S, Err("FundsUnsupported"))
    ELSE
      LET storage == IF contract_addr \in DOMAIN S.stores THEN S.stores[contract_addr]
                     ELSE EmptyStore
          out == VmCall(storage, msg)
      IN
      IF out.vm_error THEN Ret(S, Err("Vm"))
      ELSE IF ~out.is_ok THEN Ret(S, Err("Contract"))
      ELSE IF out.messages # <<>> THEN Ret(S, Err("SubmessagesUnsupported"))
      ELSE Ret([S EXCEPT !.stores = Insert(@, contract_addr, out.storage)],
               Ok(prepend(Event("execute_contract", <<>>), out.events)))

execute_contract(S, sender, contract_addr, msg, funds) ==
    IF funds # <<>> THEN Ret(S, Err("FundsUnsupported"))
    ELSE IF contract_addr \notin DOMAIN S.stores THEN Ret(S, Err("ContractNotFound"))
    ELSE IF contract_addr \notin DOMAIN S.contracts THEN Ret(S, Panic("contracts[contract_addr]"))
    ELSE IF S.contracts[contract_addr].code_id \notin DOMAIN S.codes
      THEN Ret(S, Panic("codes[code_id]"))
    ELSE
      LET out == VmCall(S.stores[contract_addr], msg) IN
      IF out.vm_error THEN Ret(S, Err("Vm"))
      ELSE IF ~out.is_ok THEN Ret(S, Err("Contract"))
      ELSE IF out.messages # <<>> THEN Ret(S, Err("SubmessagesUnsupported"))
      ELSE
        LET S1 == [S EXCEPT !.stores = Insert(@, contract_addr, out.storage)]
            event == Event("execute_contract",
                           <<<<"sender", sender>>,
                             <<"contract_address", U64ToString(contract_addr)>>>>
                             \o out.attributes)
        IN Ret(S1, Ok(prepend(event, out.events)))

migrate_contract(S, sender, contract_addr, code_id, msg) ==
    Ret(S, Err("MigrationUnsupported"))

\* One arm of the match in handle_tx / init_chain
dispatch(S, sender, m) ==
    CASE m.ty = "StoreCode" ->
           LET r == store_code(S, sender, m.wasm_byte_code)
           IN Ret(r.state, Ok(<<r.result.value>>))
      [] m.ty = "Instantiate" ->
           instantiate_contract(S, sender, m.code_id, m.msg, m.funds, m.label, m.admin)
      [] m.ty = "Execute" -> execute_contract(S, sender, m.contract, m.msg, m.funds)
      [] OTHER -> migrate_contract(S, sender, m.contract, m.code_id, m.msg)

\* info hashing the code count in place of the height
info_hashes_code_count(S) == <<S.height, Sha256(U64ToBeBytes(S.code_count))>>

\* State::info: (height, sha256(height.to_be_bytes()))
info(S) == <<S.height, Sha256(U64ToBeBytes(S.height))>>

\* commit answering with the info of the state before the increment
commit_stale_info(S) ==
    LET S1 == [S EXCEPT !.height = @ + 1] IN Ret(S1, Ok(info(S)))

commit(S) ==
    LET S1 == [S EXCEPT !.height = @ + 1] IN Ret(S1, Ok(info(S1)))

(***************************************************************************)
(* sdk: queries                                                            *)
(***************************************************************************)
query_account(S, address) ==
    IF address \in DOMAIN S.accounts
    THEN Ok([address |-> address, pubkey |-> <<S.accounts[address].pubkey>>,
             sequence |-> S.accounts[address].sequence])
    ELSE Ok([address |-> address, pubkey |-> <<>>, sequence |-> 0])

query_code(S, code_id) ==
    IF code_id \in DOMAIN S.codes THEN Ok(S.codes[code_id]) ELSE Err("CodeNotFound")

query_contract(S, contract_addr) ==
    IF contract_addr \in DOMAIN S.contracts
    THEN Ok(S.contracts[contract_addr]) ELSE Err("ContractNotFound")

query_wasm_raw(S, contract_addr, key) ==
    IF contract_addr \notin DOMAIN S.stores THEN Err("ContractNotFound")
    ELSE Ok([contract |-> contract_addr, key |-> key,
             value |-> StoreGet(S.stores[contract_addr], key)])

\* query_wasm_smart putting the storage the query ran on back into the state
query_wasm_smart_persists(S, contract_addr, msg) ==
    IF contract_addr \notin DOMAIN S.stores THEN Ret(S, Err("ContractNotFound"))
    ELSE
      LET out == VmCall(S.stores[contract_addr], msg) IN
      IF out.vm_error THEN Ret(S, Err("Vm"))
      ELSE Ret([S EXCEPT !.stores = Insert(@, contract_addr, out.storage)],
               Ok([contract |-> contract_addr, is_ok |-> out.is_ok]))

\* The contract's query entry point runs on a clone of the store; the clone
\* is dropped with the instance
query_wasm_smart(S, contract_addr, msg) ==
    IF contract_addr \notin DOMAIN S.stores THEN Ret(S, Err("ContractNotFound"))
    ELSE IF contract_addr \notin DOMAIN S.contracts THEN Ret(S, Panic("contracts[contract_addr]"))
    ELSE IF S.contracts[contract_addr].code_id \notin DOMAIN S.codes
      THEN Ret(S, Panic("codes[code_id]"))
    ELSE
      LET out == VmCall(S.stores[contract_addr], msg) IN
      IF out.vm_error THEN Ret(S, Err("Vm"))
      ELSE Ret(S, Ok([contract |-> contract_addr, is_ok |-> out.is_ok]))

AccountQuery(a) == [ty |-> "Account", address |-> a, id |-> 0, key |-> "", msg |-> <<>>]

CodeQuery(id) == [ty |-> "Code", address |-> "", id |-> id, key |-> "", msg |-> <<>>]

ContractQuery(c) == [ty |-> "Contract", address |-> "", id |-> c, key |-> "", msg |-> <<>>]

WasmRawQuery(c, k) == [ty |-> "WasmRaw", address |-> "", id |-> c, key |-> k, msg |-> <<>>]

WasmSmartQuery(c, m) == [ty |-> "WasmSmart", address |-> "", id |-> c, key |-> "", msg |-> m]

MalformedQuery == [ty |-> "Malformed", address |-> "", id |-> 0, key |-> "", msg |-> <<>>]

handle_query(S, q) ==
    CASE q.ty = "Malformed" -> Ret(S, Err("Serde"))
      [] q.ty = "Account" -> Ret(S, query_account(S, q.address))
      [] q.ty = "Code" -> Ret(S, query_code(S, q.id))
      [] q.ty = "Contract" -> Ret(S, query_contract(S, q.id))
      [] q.ty = "WasmRaw" -> Ret(S, query_wasm_raw(S, q.id, q.key))
      [] OTHER -> query_wasm_smart(S, q.id, q.msg)

(***************************************************************************)
(* sdk: transactions and genesis                                           *)
(***************************************************************************)
Tx(sender, sequence, sig_ok, msgs) ==
    [malformed |-> FALSE, sender |-> sender, sequence |-> sequence,
     sig_ok |-> sig_ok, msgs |-> msgs]

\* Bytes that do not deserialize to a Tx
MalformedTx ==
    [malformed |-> TRUE, sender |-> "", sequence |-> 0, sig_ok |-> FALSE, msgs |-> <<>>]

Genesis(deployer, gen_msgs) ==
    [malformed |-> FALSE, deployer |-> deployer, gen_msgs |-> gen_msgs]

MalformedGenesis == [malformed |-> TRUE, deployer |-> "", gen_msgs |-> <<>>]

\* auth::authenticate_tx: the sender's account with its sequence advanced,
\* or an error when the signature or the sequence number does not match
authenticate_tx(tx, S) ==
    LET known == tx.sender \in DOMAIN S.accounts
        sequence == IF known THEN S.accounts[tx.sender].sequence ELSE 0
    IN IF ~tx.sig_ok \/ tx.sequence # sequence THEN Err("Auth")
       ELSE Ok([pubkey |-> "pk", sequence |-> sequence + 1])

\* handle_tx_begin never recording the sender's account
handle_tx_begin_no_insert(S, tx) ==
    IF tx.malformed THEN Ret(S, Err("Serde"))
    ELSE LET account == authenticate_tx(tx, S) IN
         IF account.tag # "Ok" THEN Ret(S, account) ELSE Ret(S, Ok(<<>>))

\* handle_tx_begin recording the sender's account before it authenticates
handle_tx_begin_insert_first(S, tx) ==
    IF tx.malformed THEN Ret(S, Err("Serde"))
    ELSE LET account == authenticate_tx(tx, S)
             S1 == [S EXCEPT !.accounts = Insert(@, tx.sender,
                                                 [pubkey |-> "pk",
                                                  sequence |-> tx.sequence + 1])]
         IN IF account.tag # "Ok" THEN Ret(S1, account) ELSE Ret(S1, Ok(<<>>))

\* handle_tx_begin advancing the height along with the sender's sequence
handle_tx_begin_bumps_height(S, tx) ==
    IF tx.malformed THEN Ret(S, Err("Serde"))
    ELSE LET account == authenticate_tx(tx, S) IN
         IF account.tag # "Ok" THEN Ret(S, account)
         ELSE Ret([S EXCEPT !.accounts = Insert(@, tx.sender, account.value),
                            !.height = @ + 1],
                  Ok(<<>>))

\* handle_tx up to the loop over the messages: deserialize, authenticate,
\* record the sender's account
handle_tx_begin(S, tx) ==
    IF tx.malformed THEN Ret(S, Err("Serde"))
    ELSE LET account == authenticate_tx(tx, S) IN
         IF account.tag # "Ok" THEN Ret(S, account)
         ELSE Ret([S EXCEPT !.accounts = Insert(@, tx.sender, account.value)], Ok(<<>>))

\* init_chain up to the loop over the genesis messages
init_chain_begin(S, genesis) ==
    IF genesis.malformed THEN Ret(S, Err("Serde")) ELSE Ret(S, Ok(<<>>))

\* msg_loop_step going on to the next message after an error
msg_loop_step_eager(S, sender, queue, events) ==
    LET msg == Head(queue)
        r == dispatch(S, sender, msg)
    IN [state |-> r.state, result |-> r.result, msg |-> msg, queue |-> Tail(queue),
        events |-> IF r.result.tag = "Ok" THEN events \o r.result.value ELSE events]

\* One turn of the loop over the messages (map + try_for_each): the next
\* message in the queue is dispatched; its events are appended, or its error
\* ends the loop, the messages still in the queue never being dispatched
msg_loop_step(S, sender, queue, events) ==
    LET msg == Head(queue)
        r == dispatch(S, sender, msg)
    IN IF r.result.tag = "Ok"
       THEN [state |-> r.state, result |-> r.result, msg |-> msg, queue |-> Tail(queue),
             events |-> events \o r.result.value]
       ELSE [state |-> r.state, result |-> r.result, msg |-> msg, queue |-> <<>>,
             events |-> <<>>]

\* The match in init_chain's loop taking the messages to come from nobody
init_chain_dispatch_no_sender(S, deployer, m) ==
    CASE m.ty = "StoreCode" -> store_code(S, "", m.wasm_byte_code)
      [] m.ty = "Instantiate" ->
           instantiate_contract(S, "", m.code_id, m.msg, m.funds, m.label, m.admin)
      [] m.ty = "Execute" -> execute_contract(S, "", m.contract, m.msg, m.funds)
      [] OTHER -> migrate_contract(S, "", m.contract, m.code_id, m.msg)

\* The match in init_chain's loop: the private function of the message's kind
\* is called with the deployer as sender
init_chain_dispatch(S, deployer, m) ==
    CASE m.ty = "StoreCode" -> store_code(S, deployer, m.wasm_byte_code)
      [] m.ty = "Instantiate" ->
           instantiate_contract(S, deployer, m.code_id, m.msg, m.funds, m.label, m.admin)
      [] m.ty = "Execute" -> execute_contract(S, deployer, m.contract, m.msg, m.funds)
      [] OTHER -> migrate_contract(S, deployer, m.contract, m.code_id, m.msg)

\* One turn of init_chain's loop over the genesis messages: what the
\* function returns is dropped unless it is an error, which ends init_chain
init_chain_step(S, deployer, queue) ==
    LET msg == Head(queue)
        r == init_chain_dispatch(S, deployer, msg)
    IN [state |-> r.state, result |-> r.result, msg |-> msg,
        queue |-> IF r.result.tag = "Ok" THEN Tail(queue) ELSE <<>>,
        events |-> <<>>]

\* What handle_tx / init_chain return once the loop has run through
handle_tx_end(S, events) == Ok(events)

init_chain_end(S) == Ok(info(S)[2])

(***************************************************************************)
(* sdk: inputs                                                             *)
(***************************************************************************)
WriteOk == ContractMsg(<<SetOp("k", "v1")>>, "ok")

SdkMsgs ==
    {StoreCodeMsg(w) : w \in WasmCodes}
      \cup {InstantiateMsg(c, m, NoFunds, l, NoAdmin) :
              c \in 1..(MaxCodes + 1), m \in ContractMsgs, l \in Labels}
      \cup {InstantiateMsg(0, WriteOk, NoFunds, ALabel, NoAdmin),
            InstantiateMsg(1, WriteOk, SomeFunds, ALabel, NoAdmin),
            InstantiateMsg(1, WriteOk, NoFunds, HackLabel, NoAdmin)}
      \cup {ExecuteMsg(c, m, NoFunds) : c \in 1..(MaxContracts + 1), m \in ContractMsgs}
      \cup {ExecuteMsg(1, WriteOk, SomeFunds), MigrateMsg(1, 1, WriteOk)}

\* The messages that make up the longer transactions
CoreMsgs ==
    {StoreCodeMsg("wA"),
     InstantiateMsg(1, WriteOk, NoFunds, ALabel, NoAdmin),
     ExecuteMsg(1, ContractMsg(<<SetOp("k", "v2")>>, "ok"), NoFunds),
     ExecuteMsg(1, ContractMsg(<<SetOp("k", "v2")>>, "err"), NoFunds),
     MigrateMsg(1, 1, WriteOk)}

RECURSIVE SeqsUpTo(_, _)
SeqsUpTo(S, n) ==
    IF n = 0 THEN {<<>>}
    ELSE LET shorter == SeqsUpTo(S, n - 1)
         IN shorter \cup {Append(q, x) : q \in shorter, x \in S}

MsgLists == {<<m>> : m \in SdkMsgs} \cup SeqsUpTo(CoreMsgs, MaxMsgs)

\* The message lists of the transactions that authentication rejects
RejectedMsgLists == {<<>>, <<StoreCodeMsg("wA")>>, <<StoreCodeMsg("wA"), MigrateMsg(1, 1, WriteOk)>>}

Count(msgs, ty) == Cardinality({i \in DOMAIN msgs : msgs[i].ty = ty})

\* The counters stay within the bounds of the model
WithinBounds(S, msgs) ==
    /\ S.code_count + Count(msgs, "StoreCode") <= MaxCodes
    /\ S.contract_count + Count(msgs, "Instantiate") <= MaxContracts

SdkQueries ==
    {MalformedQuery}
      \cup {AccountQuery(a) : a \in Senders}
      \cup {CodeQuery(i) : i \in 1..(MaxCodes + 1)}
      \cup {ContractQuery(c) : c \in 1..(MaxContracts + 1)}
      \cup {WasmRawQuery(c, k) : c \in 1..(MaxContracts + 1), k \in Keys}
      \cup {WasmSmartQuery(c, m) : c \in 1..(MaxContracts + 1), m \in ContractMsgs}

(***************************************************************************)
(* pkg: the key/value store, the Cached overlay and the contract substore  *)
(*                                                                         *)
(* A storage is either the committed store, Raw(map), or an overlay        *)
(* Cached(base, pending) over another storage: pending maps a key to       *)
(* Put(value) or Delete.                                                   *)
(***************************************************************************)
Raw(m) == [kind |-> "raw", map |-> m, base |-> <<>>, pending |-> EmptyMap]

\* Cached::new
CachedNew(base) == [kind |-> "cached", map |-> EmptyMap, base |-> <<base>>, pending |-> EmptyMap]

PutOp(v) == [op |-> "Put", value |-> <<v>>]

DeleteOp == [op |-> "Delete", value |-> <<>>]

\* Storage::get: <<v>> when the key holds v, <<>> when it holds nothing.
\* An overlay answers from pending first and from its base otherwise
RECURSIVE Get(_, _)
Get(s, key) ==
    IF s.kind = "raw" THEN (IF key \in DOMAIN s.map THEN <<s.map[key]>> ELSE <<>>)
    ELSE IF key \in DOMAIN s.pending THEN s.pending[key].value
    ELSE Get(s.base[1], key)

\* Storage::set: an overlay buffers the write
Set(s, key, v) ==
    IF s.kind = "raw" THEN [s EXCEPT !.map = Insert(@, key, v)]
    ELSE [s EXCEPT !.pending = Insert(@, key, PutOp(v))]

\* Storage::remove: an overlay buffers the delete
Delete(s, key) ==
    IF s.kind = "raw" THEN [s EXCEPT !.map = Remove(@, key)]
    ELSE [s EXCEPT !.pending = Insert(@, key, DeleteOp)]

ApplyPending(s, key, o) == IF o.op = "Put" THEN Set(s, key, o.value[1]) ELSE Delete(s, key)

RECURSIVE ApplyAll(_, _, _)
ApplyAll(s, pending, keys) ==
    IF keys = {} THEN s
    ELSE LET key == CHOOSE x \in keys : TRUE
         IN ApplyAll(ApplyPending(s, key, pending[key]), pending, keys \ {key})

\* Cached::flush: every pending op is applied to the base; pending is cleared
CachedFlush(c) ==
    [c EXCEPT !.base = <<ApplyAll(c.base[1], c.pending, DOMAIN c.pending)>>,
              !.pending = EmptyMap]

\* Cached::recycle: the base, by value; what is still pending is dropped
CachedRecycle(c) == c.base[1]

\* Keys of the store
NoAddr == <<>>

CodeCountKey == [ns |-> "code_count", id |-> 0, addr |-> NoAddr, k |-> ""]

CodeKey(code_id) == [ns |-> "codes", id |-> code_id, addr |-> NoAddr, k |-> ""]

AccountKey(addr) == [ns |-> "accounts", id |-> 0, addr |-> addr, k |-> ""]

\* ContractSubstore: the contract's key k under the contract's own prefix
SubstoreKey(addr, k) == [ns |-> "contract_stores", id |-> 0, addr |-> addr, k |-> k]

SubstoreApply(s, addr, o) ==
    IF o.op = "set" THEN Set(s, SubstoreKey(addr, o.key), o.value)
    ELSE Delete(s, SubstoreKey(addr, o.key))

RECURSIVE SubstoreRun(_, _, _)
SubstoreRun(s, addr, ops) ==
    IF ops = <<>> THEN s
    ELSE SubstoreRun(SubstoreApply(s, addr, Head(ops)), addr, Tail(ops))

\* A call of an entry point on a backend whose storage is the substore of
\* `addr` over `s`: the storage recycled afterwards and the call's result
PkgVmCall(s, addr, msg) ==
    [storage |-> SubstoreRun(s, addr, msg.ops),
     vm_error |-> msg.outcome = "trap",
     is_ok |-> msg.outcome \in {"ok", "submsg"},
     messages |-> IF msg.outcome = "submsg" THEN <<"submsg">> ELSE <<>>,
     attributes |-> ResponseAttrs,
     events |-> ResponseEvents(msg),
     error |-> ResponseError(msg)]

(***************************************************************************)
(* pkg: addresses                                                          *)
(***************************************************************************)
ADDRESS_PREFIX == <<"c", "w">>

StartsWith(str, prefix) ==
    Len(str) >= Len(prefix) /\ SubSeq(str, 1, Len(prefix)) = prefix

\* address::derive_from_label: the prefix, the separator and a digest of the
\* label that no two labels share
derive_from_label(label) == ADDRESS_PREFIX \o <<"1", "sha256(module|">> \o label \o <<")">>

(***************************************************************************)
(* pkg: execute.rs                                                         *)
(***************************************************************************)
\* CODES.load / code_by_address
LoadCode(s, code_id) ==
    LET code == Get(s, CodeKey(code_id))
    IN IF code = <<>> THEN Err("CodeNotFound") ELSE Ok(code[1])

code_by_address(s, addr) ==
    LET account == Get(s, AccountKey(addr))
    IN IF account = <<>> THEN Err("ContractNotFound")
       ELSE LoadCode(s, account[1].code_id)

pkg_store_code(store, sender_addr, wasm_byte_code) ==
    LET count == Get(store, CodeCountKey) IN
    IF count = <<>> THEN Ret(store, Err("Std"))
    ELSE
      LET code_id == count[1] + 1
          s1 == Set(store, CodeCountKey, code_id)
          s2 == Set(s1, CodeKey(code_id), wasm_byte_code)
      IN Ret(s2, Ok(Event("store_code",
                          <<<<"sender", sender_addr>>,
                            <<"code_id", U64ToString(code_id)>>,
                            <<"code_hash", HashHex(wasm_byte_code)>>>>)))

ContractOk(events) == [is_ok |-> TRUE, events |-> events, error |-> <<>>]

ContractErr(err) == [is_ok |-> FALSE, events |-> <<>>, error |-> err]

pkg_instantiate_contract(store, sender, funds, code_id, msg, label, admin) ==
    LET cache == CachedNew(store) IN
    IF StartsWith(label, ADDRESS_PREFIX \o <<"1">>) THEN Ret(store, Err("IllegalLabel"))
    ELSE
      LET contract_addr == derive_from_label(label)
          code == LoadCode(cache, code_id)
      IN
      IF code.tag # "Ok" THEN Ret(store, code)
      ELSE
        LET out == PkgVmCall(cache, contract_addr, msg) IN
        IF out.vm_error THEN Ret(store, Err("Vm"))
        ELSE IF ~out.is_ok THEN Ret(store, Ok(ContractErr(out.error)))
        ELSE
          LET flushed == CachedRecycle(CachedFlush(out.storage)) IN
          IF Get(flushed, AccountKey(contract_addr)) # <<>>
          THEN Ret(flushed, Err("AccountFound"))
          ELSE Ret(Set(flushed, AccountKey(contract_addr),
                       [code_id |-> code_id, label |-> label, admin |-> admin]),
                   Ok(ContractOk(out.events)))

\* sudo_contract flushing whatever the contract's result is
sudo_contract_flushes_always(s, addr, msg) ==
    LET cache == CachedNew(s)
        code == code_by_address(cache, addr)
    IN
    IF code.tag # "Ok" THEN Ret(s, code)
    ELSE
      LET out == PkgVmCall(cache, addr, msg) IN
      IF out.vm_error THEN Ret(s, Err("Vm"))
      ELSE IF out.is_ok
        THEN Ret(CachedRecycle(CachedFlush(out.storage)), Ok(ContractOk(out.events)))
      ELSE Ret(CachedRecycle(CachedFlush(out.storage)), Ok(ContractErr(out.error)))

\* Returns the storage handed in (with the flushed writes when the call
\* succeeded) next to the result; an error drops the storage
sudo_contract(s, addr, msg) ==
    LET cache == CachedNew(s)
        code == code_by_address(cache, addr)
    IN
    IF code.tag # "Ok" THEN Ret(s, code)
    ELSE
      LET out == PkgVmCall(cache, addr, msg) IN
      IF out.vm_error THEN Ret(s, Err("Vm"))
      ELSE IF out.is_ok
        THEN Ret(CachedRecycle(CachedFlush(out.storage)), Ok(ContractOk(out.events)))
      ELSE Ret(CachedRecycle(out.storage), Ok(ContractErr(out.error)))

\* The bank contract's answer to the sudo message Transfer{from, to, coins}
\* is given by `bank`
\* transfer_funds going on without events when the bank returns Err
transfer_funds_ignores_err(s, sender, contract_addr, funds, bank) ==
    LET r == sudo_contract(s, derive_from_label(BankLabel), bank) IN
    IF r.result.tag # "Ok" THEN Ret(s, r.result)
    ELSE IF r.result.value.is_ok THEN Ret(r.state, Ok(r.result.value.events))
    ELSE Ret(r.state, Ok(<<>>))

transfer_funds(s, sender, contract_addr, funds, bank) ==
    LET r == sudo_contract(s, derive_from_label(BankLabel), bank) IN
    IF r.result.tag # "Ok" THEN Ret(s, r.result)
    ELSE IF r.result.value.is_ok THEN Ret(r.state, Ok(r.result.value.events))
    ELSE Ret(s, ErrWith("FundTransferFailed", r.result.value.error))

\* The storage the contract's entry point is called on: the overlay after
\* the fund transfer, if any
pkg_execute_funds(store, sender, contract_addr, funds, bank) ==
    LET cache == CachedNew(store) IN
    IF funds # <<>> THEN transfer_funds(cache, sender, contract_addr, funds, bank)
    ELSE Ret(cache, Ok(<<>>))

\* execute_contract flushing the overlay, the fund transfer in it, when the
\* contract returns Err
pkg_execute_contract_keeps_transfer(store, sender, contract_addr, funds, msg, bank) ==
    LET f == pkg_execute_funds(store, sender, contract_addr, funds, bank) IN
    IF f.result.tag # "Ok" THEN Ret(store, f.result)
    ELSE
      LET cache == f.state
          fund_events == f.result.value
          code == code_by_address(cache, contract_addr)
      IN
      IF code.tag # "Ok" THEN Ret(store, code)
      ELSE
        LET out == PkgVmCall(cache, contract_addr, msg) IN
        IF out.vm_error THEN Ret(store, Err("Vm"))
        ELSE IF out.is_ok
          THEN Ret(CachedRecycle(CachedFlush(out.storage)),
                   Ok(ContractOk(fund_events \o out.events)))
        ELSE Ret(CachedRecycle(CachedFlush(cache)), Ok(ContractErr(out.error)))

\* execute_contract handing back the overlay itself, flushed but not given up
pkg_execute_contract_keeps_overlay(store, sender, contract_addr, funds, msg, bank) ==
    LET f == pkg_execute_funds(store, sender, contract_addr, funds, bank) IN
    IF f.result.tag # "Ok" THEN Ret(store, f.result)
    ELSE
      LET cache == f.state
          fund_events == f.result.value
          code == code_by_address(cache, contract_addr)
      IN
      IF code.tag # "Ok" THEN Ret(store, code)
      ELSE
        LET out == PkgVmCall(cache, contract_addr, msg) IN
        IF out.vm_error THEN Ret(store, Err("Vm"))
        ELSE IF out.is_ok
          THEN Ret(CachedFlush(out.storage), Ok(ContractOk(fund_events \o out.events)))
        ELSE Ret(store, Ok(ContractErr(out.error)))

pkg_execute_contract(store, sender, contract_addr, funds, msg, bank) ==
    LET f == pkg_execute_funds(store, sender, contract_addr, funds, bank) IN
    IF f.result.tag # "Ok" THEN Ret(store, f.result)
    ELSE
      LET cache == f.state
          fund_events == f.result.value
          code == code_by_address(cache, contract_addr)
      IN
      IF code.tag # "Ok" THEN Ret(store, code)
      ELSE
        LET out == PkgVmCall(cache, contract_addr, msg) IN
        IF out.vm_error THEN Ret(store, Err("Vm"))
        ELSE IF out.is_ok
          THEN Ret(CachedRecycle(CachedFlush(out.storage)),
                   Ok(ContractOk(fund_events \o out.events)))
        ELSE Ret(store, Ok(ContractErr(out.error)))

\* todo!()
pkg_migrate_contract(store, contract_addr, code_id, msg) ==
    Ret(store, Panic("todo!()"))

\* The store the state machine starts from: the code count is 0
PkgGenesisStore == Raw(Insert(EmptyMap, CodeCountKey, 0))

(***************************************************************************)
(* State of the model                                                      *)
(*   impl  which state machine runs: "sdk" or "pkg"                        *)
(*   sdk   the sdk's State                                                 *)
(*   store the committed key/value store the functions of execute.rs are   *)
(*         handed                                                          *)
(*   call  the call in progress or just returned: where it stands, its     *)
(*         arguments, what it has collected and, for the properties, the   *)
(*         state it started from (pre, spre: before the call; mpre: before *)
(*         the message dispatched last; sview: what the store would hold   *)
(*         with only the fund transfer of a committing Execute applied,    *)
(*         which is what the contract's entry point was called on)         *)
(*   stored the accepted StoreCode messages so far, oldest first: the      *)
(*         bytes of each and the code id its store_code event reported     *)
(***************************************************************************)
VARIABLES impl, sdk, store, call, stored

vars == <<impl, sdk, store, call, stored>>

NoCall(pc) ==
    [pc |-> pc, op |-> "", sender |-> "", msgs |-> <<>>, queue |-> <<>>,
     events |-> <<>>, result |-> Ok(<<>>), arg |-> <<>>,
     dispatched |-> <<>>, results |-> <<>>,
     pre |-> SdkDefault, mpre |-> SdkDefault, mres |-> Ok(<<>>), midx |-> 0,
     spre |-> PkgGenesisStore, sview |-> PkgGenesisStore]

Init ==
    /\ impl \in {"sdk", "pkg"}
    /\ sdk = SdkDefault
    /\ store = PkgGenesisStore
    /\ stored = <<>>
    /\ call = NoCall("fresh")

\* The value of an event's attribute
EventAttr(event, key) ==
    LET i == CHOOSE j \in DOMAIN event.attrs : event.attrs[j][1] = key
    IN event.attrs[i][2]

Stored(wasm, event) == [wasm_byte_code |-> wasm, code_id |-> EventAttr(event, "code_id")]

Ready == call.pc \in {"fresh", "idle"}

\* The call returned; the driver may make the next one
Return ==
    /\ call.pc = "done"
    /\ call' = NoCall("idle")
    /\ UNCHANGED <<impl, sdk, store, stored>>

Started(op, sender, msgs, begin) ==
    [NoCall("loop") EXCEPT !.op = op, !.sender = sender, !.msgs = msgs,
                           !.queue = msgs, !.pre = sdk, !.mpre = begin.state]

Finished(c, result) == [c EXCEPT !.pc = "done", !.result = result, !.queue = <<>>]

\* handle_tx, from its entry to the first message
SdkHandleTxBegin ==
    /\ impl = "sdk" /\ Ready
    /\ \E tx \in {MalformedTx}
                   \cup {Tx(s, n, ok, msgs) : s \in Senders, n \in 0..MaxSeq,
                                               ok \in BOOLEAN, msgs \in MsgLists} :
         LET b == handle_tx_begin(sdk, tx)
             c == [Started("handle_tx", tx.sender, tx.msgs, b) EXCEPT !.arg = <<tx>>]
         IN /\ WithinBounds(sdk, tx.msgs)
            /\ b.result.tag = "Ok" => tx.sequence < MaxSeq
            /\ b.result.tag # "Ok" => tx.msgs \in RejectedMsgLists
            /\ sdk' = b.state
            /\ call' = IF b.result.tag # "Ok" THEN Finished(c, b.result)
                       ELSE IF tx.msgs = <<>> THEN Finished(c, handle_tx_end(b.state, <<>>))
                       ELSE c
    /\ UNCHANGED <<impl, store, stored>>

\* init_chain, from its entry to the first genesis message
SdkInitChainBegin ==
    /\ impl = "sdk" /\ call.pc = "fresh"
    /\ \E g \in {MalformedGenesis}
                  \cup {Genesis(Deployer, msgs) : msgs \in MsgLists}
                  \cup {Genesis(InvalidDeployer, msgs) : msgs \in RejectedMsgLists} :
         LET b == init_chain_begin(sdk, g)
             c == [Started("init_chain", g.deployer, g.gen_msgs, b) EXCEPT !.arg = <<g>>]
         IN /\ WithinBounds(sdk, g.gen_msgs)
            /\ sdk' = b.state
            /\ call' = IF b.result.tag # "Ok" THEN Finished(c, b.result)
                       ELSE IF g.gen_msgs = <<>> THEN Finished(c, init_chain_end(b.state))
                       ELSE c
    /\ UNCHANGED <<impl, store, stored>>

\* The loop of handle_tx / init_chain dispatches the next message
SdkDispatch ==
    /\ impl = "sdk" /\ call.pc = "loop"
    /\ LET s == IF call.op = "handle_tx"
                THEN msg_loop_step(sdk, call.sender, call.queue, call.events)
                ELSE init_chain_step(sdk, call.sender, call.queue)
           event == IF call.op = "handle_tx" THEN s.result.value[1] ELSE s.result.value
           c == [call EXCEPT !.queue = s.queue, !.events = s.events, !.mpre = sdk,
                             !.mres = s.result, !.midx = @ + 1,
                             !.dispatched = Append(@, s.msg),
                             !.results = Append(@, s.result.tag)]
       IN /\ sdk' = s.state
          /\ call' = CASE s.result.tag = "Panic" ->
                            [c EXCEPT !.pc = "aborted", !.result = s.result]
                       [] s.queue # <<>> -> c
                       [] s.result.tag = "Err" -> Finished(c, s.result)
                       [] call.op = "handle_tx" -> Finished(c, handle_tx_end(s.state, s.events))
                       [] OTHER -> Finished(c, init_chain_end(s.state))
          /\ stored' = IF s.msg.ty = "StoreCode" /\ s.result.tag = "Ok"
                       THEN Append(stored, Stored(s.msg.wasm_byte_code, event))
                       ELSE stored
    /\ UNCHANGED <<impl, store>>

SdkCommit ==
    /\ impl = "sdk" /\ Ready
    /\ sdk.height < MaxHeight
    /\ LET r == commit(sdk)
       IN /\ sdk' = r.state
          /\ call' = [NoCall("done") EXCEPT !.op = "commit", !.pre = sdk,
                                            !.result = r.result]
    /\ UNCHANGED <<impl, store, stored>>

SdkInfo ==
    /\ impl = "sdk" /\ Ready
    /\ call' = [NoCall("done") EXCEPT !.op = "info", !.pre = sdk,
                                      !.result = Ok(info(sdk))]
    /\ UNCHANGED <<impl, sdk, store, stored>>

SdkHandleQuery ==
    /\ impl = "sdk" /\ Ready
    /\ \E q \in SdkQueries :
         LET r == handle_query(sdk, q)
         IN /\ sdk' = r.state
            /\ call' = [NoCall(IF r.result.tag = "Panic" THEN "aborted" ELSE "done")
                          EXCEPT !.op = "handle_query", !.pre = sdk, !.arg = <<q>>,
                                 !.result = r.result]
    /\ UNCHANGED <<impl, store, stored>>

(***************************************************************************)
(* pkg: the functions of execute.rs, each called on the committed store    *)
(***************************************************************************)
PkgCall(op, arg, r) ==
    [NoCall(IF r.result.tag = "Panic" THEN "aborted" ELSE "done")
       EXCEPT !.op = op, !.arg = <<arg>>, !.result = r.result, !.spre = store,
              !.sview = store]

PkgCodeCount(s) == Get(s, CodeCountKey)[1]

PkgStoreCode ==
    /\ impl = "pkg" /\ Ready
    /\ PkgCodeCount(store) < MaxCodes
    /\ \E sender \in Senders, wasm \in WasmCodes :
         LET r == pkg_store_code(store, sender, wasm)
         IN /\ store' = r.state
            /\ stored' = IF r.result.tag = "Ok"
                         THEN Append(stored, Stored(wasm, r.result.value))
                         ELSE stored
            /\ call' = PkgCall("store_code", [sender |-> sender, wasm_byte_code |-> wasm], r)
    /\ UNCHANGED <<impl, sdk>>

PkgInstantiate ==
    /\ impl = "pkg" /\ Ready
    /\ \E sender \in Senders, funds \in {NoFunds, SomeFunds}, code_id \in 0..(MaxCodes + 1),
          msg \in ContractMsgs, label \in Labels \cup {HackLabel} :
         LET r == pkg_instantiate_contract(store, sender, funds, code_id, msg, label, NoAdmin)
         IN /\ store' = r.state
            /\ call' = PkgCall("instantiate_contract",
                               [sender |-> sender, funds |-> funds, code_id |-> code_id,
                                msg |-> msg, label |-> label,
                                contract |-> derive_from_label(label)], r)
    /\ UNCHANGED <<impl, sdk, stored>>

PkgExecute ==
    /\ impl = "pkg" /\ Ready
    /\ \E sender \in Senders, funds \in {NoFunds, SomeFunds}, label \in Labels,
          msg \in ContractMsgs, bank \in ContractMsgs :
         LET contract_addr == derive_from_label(label)
             r == pkg_execute_contract(store, sender, contract_addr, funds, msg, bank)
             f == pkg_execute_funds(store, sender, contract_addr, funds, bank)
         IN /\ funds = NoFunds => bank = WriteOk
            /\ store' = r.state
            /\ call' = [PkgCall("execute_contract",
                                [sender |-> sender, funds |-> funds, msg |-> msg,
                                 bank |-> bank, contract |-> contract_addr], r)
                          EXCEPT !.sview = IF r.result.tag = "Ok" /\ r.result.value.is_ok
                                           THEN CachedRecycle(CachedFlush(f.state))
                                           ELSE store]
    /\ UNCHANGED <<impl, sdk, stored>>

PkgMigrate ==
    /\ impl = "pkg" /\ Ready
    /\ \E label \in Labels :
         LET r == pkg_migrate_contract(store, derive_from_label(label), 1, WriteOk)
         IN /\ store' = r.state
            /\ call' = PkgCall("migrate_contract",
                               [contract |-> derive_from_label(label)], r)
    /\ UNCHANGED <<impl, sdk, stored>>

Next ==
    \/ PkgStoreCode
    \/ PkgInstantiate
    \/ PkgExecute
    \/ PkgMigrate
    \/ SdkHandleTxBegin
    \/ SdkInitChainBegin
    \/ SdkDispatch
    \/ SdkCommit
    \/ SdkInfo
    \/ SdkHandleQuery
    \/ Return

Spec == Init /\ [][Next]_vars

(***************************************************************************)
(* Properties                                                              *)
(***************************************************************************)
\* The message the loop dispatched last, once it has dispatched one
LastMsg == call.dispatched[Len(call.dispatched)]

SdkDispatched == impl = "sdk" /\ call.midx > 0 /\ call.pc # "aborted"

PkgReturned(ops) == impl = "pkg" /\ call.pc = "done" /\ call.op \in ops

\* A message of the sdk failed / a function of execute.rs failed: it returned
\* an error, or the contract's ContractResult::Err
SdkMsgFailed == SdkDispatched /\ call.mres.tag = "Err"

PkgMsgFailed ==
    /\ PkgReturned({"store_code", "instantiate_contract", "execute_contract"})
    /\ \/ call.result.tag = "Err"
       \/ /\ call.op \in {"instantiate_contract", "execute_contract"}
          /\ call.result.tag = "Ok"
          /\ ~call.result.value.is_ok

\* C1: a message that fails with an error leaves code_count, codes, accounts,
\* contracts, every contract store and the block height as they were before
\* the message started.
C1_FailedMessageChangesNothing ==
    /\ SdkMsgFailed => sdk = call.mpre
    /\ PkgMsgFailed => store = call.spre

\* What the contract code wrote last under key k: <<>> when it did not touch k
RECURSIVE LastWrite(_, _)
LastWrite(ops, k) ==
    IF ops = <<>> THEN <<>>
    ELSE IF ops[Len(ops)].key = k THEN <<ops[Len(ops)]>>
    ELSE LastWrite(SubSeq(ops, 1, Len(ops) - 1), k)

SdkExecuted ==
    /\ SdkDispatched
    /\ LastMsg.ty = "Execute"
    /\ LastMsg.funds = NoFunds
    /\ LastMsg.contract \in DOMAIN call.mpre.stores

RawValue(S, c, k) == query_wasm_raw(S, c, k).value.value

\* C2 as claimed: after an Execute on c whose contract call writes (k,v) and
\* returns Ok, WasmRaw(c,k) returns v; after one whose contract call writes
\* and then returns Err or traps, WasmRaw(c,k) returns the value k had before.
C2_AsClaimed ==
    SdkExecuted =>
      \A k \in Keys :
        LET w == LastWrite(LastMsg.msg.ops, k) IN
        /\ (LastMsg.msg.outcome \in {"ok", "submsg"} /\ w # <<>> /\ w[1].op = "set")
             => RawValue(sdk, LastMsg.contract, k) = <<w[1].value>>
        /\ LastMsg.msg.outcome \in {"err", "trap"}
             => RawValue(sdk, LastMsg.contract, k) = RawValue(call.mpre, LastMsg.contract, k)

\* C2 (amended): after an Execute on c whose contract call writes (k,v) and
\* returns Ok with an empty messages list, WasmRaw(c,k) returns v; after one
\* whose contract call writes and then returns Err or traps, WasmRaw(c,k)
\* returns the value k had before that Execute.
C2_ExecuteThenWasmRaw ==
    SdkExecuted =>
      \A k \in Keys :
        LET w == LastWrite(LastMsg.msg.ops, k) IN
        /\ query_wasm_raw(sdk, LastMsg.contract, k).tag = "Ok"
        /\ (LastMsg.msg.outcome = "ok" /\ w # <<>> /\ w[1].op = "set")
             => RawValue(sdk, LastMsg.contract, k) = <<w[1].value>>
        /\ LastMsg.msg.outcome \in {"err", "trap"}
             => RawValue(sdk, LastMsg.contract, k) = RawValue(call.mpre, LastMsg.contract, k)

\* An Execute wrote v2 over v1 and then the contract returned Err or trapped
C2_Witness ==
    /\ SdkExecuted
    /\ LastMsg.msg.outcome \in {"err", "trap"}
    /\ LastMsg.msg.ops = <<SetOp("k", "v2")>>
    /\ RawValue(call.mpre, LastMsg.contract, "k") = <<"v1">>

\* The contract a dispatched Instantiate / Execute of the sdk ran
SdkTarget ==
    IF LastMsg.ty = "Execute" THEN LastMsg.contract ELSE call.mpre.contract_count + 1

\* C3: an Execute or Instantiate of contract A that writes or deletes key k in
\* its own storage leaves WasmRaw(B, k) as it was for every other contract B:
\* in the sdk only A's entry of `stores` is replaced, in execute.rs the keys
\* of every other contract's substore hold what they held when A's entry
\* point was invoked.
C3_SubstoreIsolation ==
    /\ (SdkDispatched /\ LastMsg.ty \in {"Execute", "Instantiate"}) =>
         \A B \in (DOMAIN sdk.stores) \cup (DOMAIN call.mpre.stores) :
           B # SdkTarget =>
             \A k \in Keys : query_wasm_raw(sdk, B, k) = query_wasm_raw(call.mpre, B, k)
    /\ PkgReturned({"instantiate_contract", "execute_contract"}) =>
         \A l \in Labels :
           derive_from_label(l) # call.arg[1].contract =>
             \A k \in Keys :
               Get(store, SubstoreKey(derive_from_label(l), k))
                 = Get(call.sview, SubstoreKey(derive_from_label(l), k))

\* Contract A's Execute changed A's value of k while another contract holds a
\* different value under the same key
C3_Witness ==
    /\ SdkExecuted
    /\ call.mres.tag = "Ok"
    /\ RawValue(sdk, LastMsg.contract, "k") # RawValue(call.mpre, LastMsg.contract, "k")
    /\ \E B \in DOMAIN sdk.stores :
         /\ B # LastMsg.contract
         /\ RawValue(sdk, B, "k") # <<>>
         /\ RawValue(sdk, B, "k") # RawValue(sdk, LastMsg.contract, "k")

\* C4: after n accepted StoreCode messages the stored code ids are exactly
\* 1..n, code_count = n, the i-th accepted StoreCode was given code id i in
\* its store_code event, and codes[i] still holds the bytes of that i-th
\* StoreCode.
C4_CodeIdsDenseAndImmutable ==
    LET n == Len(stored) IN
    /\ impl = "sdk" =>
         /\ sdk.code_count = n
         /\ DOMAIN sdk.codes = 1..n
         /\ \A i \in 1..n :
              /\ stored[i].code_id = U64ToString(i)
              /\ sdk.codes[i].wasm_byte_code = stored[i].wasm_byte_code
    /\ impl = "pkg" =>
         /\ Get(store, CodeCountKey) = <<n>>
         /\ \A i \in 0..(MaxCodes + 1) :
              IF i \in 1..n
              THEN /\ stored[i].code_id = U64ToString(i)
                   /\ Get(store, CodeKey(i)) = <<stored[i].wasm_byte_code>>
              ELSE Get(store, CodeKey(i)) = <<>>

\* Two codes with different bytes were stored, and contracts were
\* instantiated and executed afterwards
C4_Witness ==
    /\ impl = "sdk"
    /\ Len(stored) = 2
    /\ stored[1].wasm_byte_code # stored[2].wasm_byte_code
    /\ SdkExecuted
    /\ call.mres.tag = "Ok"

\* The label of the contract account at the address derived from l, if any
PkgContractAt(l) == Get(store, AccountKey(derive_from_label(l)))

\* C5: contract labels are unique: no two contract accounts carry the same
\* label.
C5_LabelsUnique ==
    /\ impl = "sdk" =>
         \A a, b \in DOMAIN sdk.contracts :
           a # b => sdk.contracts[a].label # sdk.contracts[b].label
    /\ impl = "pkg" =>
         \A l1, l2 \in Labels :
           (l1 # l2 /\ PkgContractAt(l1) # <<>> /\ PkgContractAt(l2) # <<>>)
             => PkgContractAt(l1)[1].label # PkgContractAt(l2)[1].label

InHandleTx == impl = "sdk" /\ call.op = "handle_tx" /\ call.pc \in {"loop", "done"}

\* C6: handle_tx dispatches the messages of a transaction one at a time in
\* their encoded order and stops at the first failing message: it returns
\* that message's error, and no later message is dispatched or changes the
\* state.
C6_MessagesInOrderUntilFirstFailure ==
    InHandleTx =>
      LET n == Len(call.dispatched) IN
      /\ n <= Len(call.msgs)
      /\ call.dispatched = SubSeq(call.msgs, 1, n)
      /\ \A i \in 1..(n - 1) : call.results[i] = "Ok"
      /\ (call.pc = "done" /\ n > 0 /\ call.results[n] = "Err") =>
           /\ call.result = call.mres
           /\ sdk = dispatch(call.mpre, call.sender, call.msgs[n]).state
      /\ (call.pc = "done" /\ call.result.tag = "Ok") => n = Len(call.msgs)
      /\ (call.pc = "loop") => (n < Len(call.msgs) /\ (n > 0 => call.results[n] = "Ok"))

\* The first of two messages failed; the second was never dispatched
C6_Witness ==
    /\ InHandleTx /\ call.pc = "done"
    /\ Len(call.msgs) = 2
    /\ call.dispatched = <<call.msgs[1]>>
    /\ call.results = <<"Err">>
    /\ call.msgs[2].ty = "StoreCode"

\* The state after the first n messages of a list, dispatched in order
RECURSIVE Replay(_, _, _, _)
Replay(S, sender, msgs, n) ==
    IF n = 0 THEN S
    ELSE dispatch(Replay(S, sender, msgs, n - 1), sender, msgs[n]).state

TxFailedAtMsg ==
    /\ InHandleTx /\ call.pc = "done"
    /\ call.midx > 0
    /\ call.result.tag = "Err"

\* C7: handle_tx is not atomic across the transaction: when message i fails,
\* the state holds the changes of messages 1..i-1 and the sender's
\* incremented sequence, while handle_tx returns the error and no events.
C7_EarlierMessagesPersist ==
    TxFailedAtMsg =>
      LET tx == call.arg[1]
          was == IF tx.sender \in DOMAIN call.pre.accounts
                 THEN call.pre.accounts[tx.sender].sequence ELSE 0
          begun == [call.pre EXCEPT !.accounts =
                      Insert(@, tx.sender, [pubkey |-> "pk", sequence |-> was + 1])]
      IN /\ sdk = Replay(begun, tx.sender, tx.msgs, call.midx - 1)
         /\ sdk.accounts[tx.sender].sequence = was + 1
         /\ call.result.value = <<>>

\* The second message failed after the first one stored a code
C7_Witness ==
    /\ TxFailedAtMsg
    /\ call.midx = 2
    /\ sdk.code_count = call.pre.code_count + 1

TxRejected ==
    /\ impl = "sdk" /\ call.op = "handle_tx" /\ call.pc = "done"
    /\ \/ call.arg[1].malformed
       \/ call.result.kind \in {"Auth", "Serde"}

\* C8: when authentication fails or the bytes do not deserialize, handle_tx
\* returns the error before any message is dispatched and the whole state,
\* the sender's account and sequence included, is unchanged.
C8_RejectedTxChangesNothing ==
    TxRejected =>
      /\ call.result.tag = "Err"
      /\ call.result.kind \in {"Auth", "Serde"}
      /\ call.arg[1].malformed => call.result.kind = "Serde"
      /\ call.dispatched = <<>>
      /\ call.midx = 0
      /\ sdk = call.pre

\* A transaction with a message was rejected by authentication for a sender
\* whose account exists
C8_Witness ==
    /\ TxRejected
    /\ call.result.kind = "Auth"
    /\ call.arg[1].msgs # <<>>
    /\ call.arg[1].sender \in DOMAIN sdk.accounts

Queried == impl = "sdk" /\ call.op = "handle_query" /\ call.pc \in {"done", "aborted"}

\* C9: queries are read-only: whatever the query and its outcome,
\* handle_query leaves the whole State unchanged, the writes of contract code
\* during a WasmSmart query are not persisted, and info() is the same before
\* and after.
C9_QueriesReadOnly ==
    Queried => (sdk = call.pre /\ info(sdk) = info(call.pre))

\* A smart query whose contract code wrote v2 over v1 and returned Ok
C9_Witness ==
    /\ Queried
    /\ call.arg[1].ty = "WasmSmart"
    /\ call.arg[1].msg = ContractMsg(<<SetOp("k", "v2")>>, "ok")
    /\ call.result.tag = "Ok"
    /\ RawValue(call.pre, call.arg[1].id, "k") = <<"v1">>

Committed == impl = "sdk" /\ call.op = "commit" /\ call.pc = "done"

\* C10: commit increases the height by exactly 1 and returns the new height
\* with the app hash of the new state, which differs from the app hash before
\* the commit; from an empty chain two commits return heights 1 and 2.
C10_CommitAdvancesHeight ==
    Committed =>
      /\ sdk.height = call.pre.height + 1
      /\ call.result.value[1] = call.pre.height + 1
      /\ call.result.value[2] = Sha256(U64ToBeBytes(call.pre.height + 1))
      /\ call.result.value[2] # Sha256(U64ToBeBytes(call.pre.height))

\* The second commit of the chain
C10_Witness ==
    /\ Committed
    /\ call.pre.height = 1
    /\ call.result.value[1] = 2

\* A message of the sdk was dispatched / a function of execute.rs was called,
\* whether it returned or aborted
SdkRan == impl = "sdk" /\ call.midx > 0

PkgRan(ops) == impl = "pkg" /\ call.pc \in {"done", "aborted"} /\ call.op \in ops

IsErr(r, kind) == r.tag = "Err" /\ r.kind = kind

\* C11: every Migrate message, for any contract address, code_id and message,
\* terminates with the error MigrationUnsupported and causes no state change.
C11_MigrateUnsupported ==
    /\ (SdkRan /\ LastMsg.ty = "Migrate") =>
         (call.pc # "aborted" /\ IsErr(call.mres, "MigrationUnsupported") /\ sdk = call.mpre)
    /\ PkgRan({"migrate_contract"}) =>
         (call.pc # "aborted" /\ IsErr(call.result, "MigrationUnsupported")
            /\ store = call.spre)

ReservedLabel(label) == StartsWith(label, ADDRESS_PREFIX \o <<"1">>)

\* C12: an Instantiate whose label begins with ADDRESS_PREFIX followed by '1'
\* is rejected with IllegalLabel, whatever its code_id and message, and
\* code_count, accounts, contracts and contract stores are unchanged.
C12_IllegalLabelRejected ==
    /\ (SdkRan /\ LastMsg.ty = "Instantiate" /\ ReservedLabel(LastMsg.label)) =>
         (IsErr(call.mres, "IllegalLabel") /\ sdk = call.mpre)
    /\ (PkgRan({"instantiate_contract"}) /\ ReservedLabel(call.arg[1].label)) =>
         (IsErr(call.result, "IllegalLabel") /\ store = call.spre)

\* C13: an Instantiate naming a code_id for which no code is stored returns
\* the error CodeNotFound to the caller, does not abort the state machine, and
\* leaves the state unchanged.
C13_UnknownCodeIsAnError ==
    /\ (SdkRan /\ LastMsg.ty = "Instantiate" /\ LastMsg.funds = NoFunds
          /\ LastMsg.code_id \notin DOMAIN call.mpre.codes) =>
         (call.pc # "aborted" /\ IsErr(call.mres, "CodeNotFound") /\ sdk = call.mpre)
    /\ (PkgRan({"instantiate_contract"}) /\ ~ReservedLabel(call.arg[1].label)
          /\ Get(call.spre, CodeKey(call.arg[1].code_id)) = <<>>) =>
         (call.pc # "aborted" /\ IsErr(call.result, "CodeNotFound") /\ store = call.spre)

SdkExecuteRan == SdkRan /\ LastMsg.ty = "Execute"

SdkContractQueried == Queried /\ call.arg[1].ty \in {"WasmRaw", "WasmSmart"}

PkgExecuteRan == PkgRan({"execute_contract"})

\* The contract account at `addr` in the store `s` of execute.rs, if any
PkgAccount(s, addr) == Get(s, AccountKey(addr))

\* C14 as claimed: an Execute (and a WasmRaw or WasmSmart query) addressed to
\* an address at which no contract exists fails with ContractNotFound without
\* changing the state.
C14_AsClaimed ==
    /\ (SdkExecuteRan /\ LastMsg.contract \notin DOMAIN call.mpre.contracts) =>
         (IsErr(call.mres, "ContractNotFound") /\ sdk = call.mpre)
    /\ (SdkContractQueried /\ call.arg[1].id \notin DOMAIN call.pre.contracts) =>
         (IsErr(call.result, "ContractNotFound") /\ sdk = call.pre)
    /\ (PkgExecuteRan /\ PkgAccount(call.spre, call.arg[1].contract) = <<>>) =>
         (IsErr(call.result, "ContractNotFound") /\ store = call.spre)

\* C14 (amended): an Execute with empty funds, a WasmRaw and a WasmSmart query
\* addressed to an address at which no contract exists fail with
\* ContractNotFound whatever the message (contract code is never reached) and
\* leave the state unchanged.  With non-empty funds the funds are handled
\* before the address is looked up: the sdk answers FundsUnsupported,
\* execute.rs runs the bank's sudo Transfer first and fails with
\* ContractNotFound, FundTransferFailed or a VM error; the state is unchanged
\* all the same.  For an address at which a contract exists, the look-up of
\* its record and its code never fails.
C14_UnknownContractNotFound ==
    /\ (SdkExecuteRan /\ LastMsg.contract \notin DOMAIN call.mpre.contracts) =>
         /\ call.pc # "aborted"
         /\ sdk = call.mpre
         /\ IF LastMsg.funds = NoFunds THEN IsErr(call.mres, "ContractNotFound")
            ELSE IsErr(call.mres, "FundsUnsupported")
    /\ (SdkExecuteRan /\ LastMsg.contract \in DOMAIN call.mpre.contracts) =>
         (call.mres.tag # "Panic" /\ ~IsErr(call.mres, "ContractNotFound"))
    /\ (SdkContractQueried /\ call.arg[1].id \notin DOMAIN call.pre.contracts) =>
         (call.pc # "aborted" /\ IsErr(call.result, "ContractNotFound") /\ sdk = call.pre)
    /\ (SdkContractQueried /\ call.arg[1].id \in DOMAIN call.pre.contracts) =>
         (call.result.tag # "Panic" /\ ~IsErr(call.result, "ContractNotFound"))
    /\ (PkgExecuteRan /\ PkgAccount(call.spre, call.arg[1].contract) = <<>>) =>
         /\ call.pc # "aborted"
         /\ store = call.spre
         /\ IF call.arg[1].funds = NoFunds THEN IsErr(call.result, "ContractNotFound")
            ELSE \/ IsErr(call.result, "ContractNotFound")
                 \/ IsErr(call.result, "FundTransferFailed")
                 \/ IsErr(call.result, "Vm")
    /\ (PkgExecuteRan /\ PkgAccount(call.spre, call.arg[1].contract) # <<>>) =>
         /\ code_by_address(call.spre, call.arg[1].contract).tag = "Ok"
         /\ call.arg[1].funds = NoFunds => ~IsErr(call.result, "ContractNotFound")

\* An Execute whose message would trap was addressed to an address without a
\* contract while another contract exists
C14_Witness ==
    /\ SdkExecuteRan
    /\ LastMsg.funds = NoFunds
    /\ LastMsg.msg.outcome = "trap"
    /\ LastMsg.contract \notin DOMAIN call.mpre.contracts
    /\ call.mpre.contract_count = 1
    /\ IsErr(call.mres, "ContractNotFound")

\* The addresses a contract of execute.rs can have in the model
PkgAddrs == {derive_from_label(l) : l \in Labels \cup {HackLabel}}

\* C15: a contract store exists if and only if a contract account with the
\* same address exists, and each contract record's code_id is the id of a
\* stored code.  In the sdk the addresses with a store and the addresses with
\* a record both are 1..contract_count; in execute.rs, where a store is the
\* set of keys under the contract's prefix, every key under a prefix belongs
\* to an address that has a contract account.
C15_StoreIffContract ==
    /\ impl = "sdk" =>
         /\ DOMAIN sdk.stores = DOMAIN sdk.contracts
         /\ DOMAIN sdk.contracts = 1..sdk.contract_count
         /\ \A c \in DOMAIN sdk.contracts : sdk.contracts[c].code_id \in DOMAIN sdk.codes
    /\ impl = "pkg" =>
         \A a \in PkgAddrs :
           /\ (\E k \in Keys : Get(store, SubstoreKey(a, k)) # <<>>)
                => PkgAccount(store, a) # <<>>
           /\ PkgAccount(store, a) # <<>>
                => LoadCode(store, PkgAccount(store, a)[1].code_id).tag = "Ok"

\* An Instantiate was turned down after its contract code had run, with one
\* contract in place
C15_Witness ==
    /\ SdkRan
    /\ LastMsg.ty = "Instantiate"
    /\ IsErr(call.mres, "SubmessagesUnsupported")
    /\ sdk.contract_count = 1
    /\ DOMAIN sdk.stores = {1}

BankAddr == derive_from_label(BankLabel)

PkgInstantiateRan == PkgRan({"instantiate_contract"})

PkgSucceeded == call.pc = "done" /\ call.result.tag = "Ok" /\ call.result.value.is_ok

\* C16: an Instantiate with non-empty funds performs the bank's sudo Transfer
\* before the instantiate entry point runs: it does not succeed where no bank
\* contract exists to make the transfer, and the events of a successful one
\* begin with the bank call's events, ahead of those of the instantiate call.
C16_InstantiateTransfersFunds ==
    (PkgInstantiateRan /\ call.arg[1].funds # NoFunds /\ PkgSucceeded) =>
      /\ PkgAccount(call.spre, BankAddr) # <<>>
      /\ Len(call.result.value.events) > Len(ResponseEvents(call.arg[1].msg))

\* An Execute with funds was made where a bank contract exists and the bank's
\* sudo Transfer returned Err
PkgTransferFailed ==
    /\ PkgExecuteRan
    /\ call.arg[1].funds # NoFunds
    /\ PkgAccount(call.spre, BankAddr) # <<>>
    /\ call.arg[1].bank.outcome = "err"

\* C17: for an Execute with non-empty funds, if the bank's sudo Transfer
\* returns Err(s), the Execute fails with FundTransferFailed carrying s
\* whatever the target's message (the target's entry point is not reached),
\* and the store, the bank's and the target's keys included, is unchanged.
C17_FailedTransferFailsExecute ==
    PkgTransferFailed =>
      /\ call.pc = "done"
      /\ IsErr(call.result, "FundTransferFailed")
      /\ call.result.value = ResponseError(call.arg[1].bank)
      /\ store = call.spre

\* The bank wrote v2 over its v1 and returned Err; the target exists and its
\* message would have written
C17_Witness ==
    /\ PkgTransferFailed
    /\ call.arg[1].contract # BankAddr
    /\ PkgAccount(call.spre, call.arg[1].contract) # <<>>
    /\ call.arg[1].msg.outcome = "ok"
    /\ call.arg[1].bank.ops = <<SetOp("k", "v2")>>
    /\ Get(store, SubstoreKey(BankAddr, "k")) = <<"v1">>

\* The entry point of the message ran and its response carried submessages
SdkSubmessages ==
    /\ SdkRan
    /\ LastMsg.ty \in {"Instantiate", "Execute"}
    /\ LastMsg.funds = NoFunds
    /\ LastMsg.msg.outcome = "submsg"
    /\ LastMsg.ty = "Instantiate" => LastMsg.code_id \in DOMAIN call.mpre.codes
    /\ LastMsg.ty = "Execute" => LastMsg.contract \in DOMAIN call.mpre.contracts

PkgSubmessages ==
    /\ PkgRan({"instantiate_contract", "execute_contract"})
    /\ call.arg[1].funds = NoFunds
    /\ call.arg[1].msg.outcome = "submsg"
    /\ call.op = "instantiate_contract" =>
         /\ ~ReservedLabel(call.arg[1].label)
         /\ Get(call.spre, CodeKey(call.arg[1].code_id)) # <<>>
    /\ call.op = "execute_contract" => PkgAccount(call.spre, call.arg[1].contract) # <<>>

\* C18: if the contract's response to Instantiate or Execute has a non-empty
\* messages list, the message is rejected with SubmessagesUnsupported and
\* nothing the contract wrote during the call is persisted: no contract is
\* created and the contract store is unchanged.
C18_SubmessagesRejected ==
    /\ SdkSubmessages => (IsErr(call.mres, "SubmessagesUnsupported") /\ sdk = call.mpre)
    /\ PkgSubmessages => (IsErr(call.result, "SubmessagesUnsupported") /\ store = call.spre)

\* The state handle_tx dispatches the first message on: the sender's account
\* holds the incremented sequence
Begun(tx, pre) ==
    LET was == IF tx.sender \in DOMAIN pre.accounts
               THEN pre.accounts[tx.sender].sequence ELSE 0
    IN [pre EXCEPT !.accounts = Insert(@, tx.sender, [pubkey |-> "pk", sequence |-> was + 1])]

\* The events of the first n messages of a list, those of each message in the
\* order the message returned them, the messages in their order in the list
RECURSIVE TxEvents(_, _, _, _)
TxEvents(S, sender, msgs, n) ==
    IF n = 0 THEN <<>>
    ELSE TxEvents(S, sender, msgs, n - 1)
           \o dispatch(Replay(S, sender, msgs, n - 1), sender, msgs[n]).result.value

SdkContractMsgSucceeded ==
    SdkRan /\ call.mres.tag = "Ok" /\ LastMsg.ty \in {"Instantiate", "Execute"}

HandleTxSucceeded == InHandleTx /\ call.pc = "done" /\ call.result.tag = "Ok"

\* The events of the bank's sudo Transfer of an Execute of execute.rs
FundEvents == IF call.arg[1].funds = NoFunds THEN <<>> ELSE ResponseEvents(call.arg[1].bank)

PkgFundedExecuteSucceeded ==
    /\ PkgExecuteRan /\ PkgSucceeded
    /\ call.arg[1].funds # NoFunds
    /\ ResponseEvents(call.arg[1].bank) # ResponseEvents(call.arg[1].msg)

\* handle_tx of a transaction from `sender` whose only message is m, without
\* the authentication and the sender's account: the loop over the one message
SingleTx(S, sender, m) == msg_loop_step(S, sender, <<m>>, <<>>)

\* The state after the first n messages of a list, each submitted as a
\* transaction of its own
RECURSIVE TxReplay(_, _, _, _)
TxReplay(S, sender, msgs, n) ==
    IF n = 0 THEN S
    ELSE SingleTx(TxReplay(S, sender, msgs, n - 1), sender, msgs[n]).state

InInitChain ==
    /\ impl = "sdk" /\ call.op = "init_chain"
    /\ call.pc \in {"loop", "done", "aborted"}
    /\ ~call.arg[1].malformed

\* C20: init_chain applies the genesis messages in order with the deployer as
\* sender; the state it leaves is the one obtained by submitting each genesis
\* message as its own single-message transaction from the deployer through
\* handle_tx with authentication bypassed; a genesis message that fails makes
\* init_chain return that message's error, and otherwise init_chain returns
\* the app hash.
C20_InitChainAsSingleTxs ==
    InInitChain =>
      LET g == call.arg[1]
          n == call.midx
      IN /\ n <= Len(g.gen_msgs)
         /\ call.dispatched = SubSeq(g.gen_msgs, 1, n)
         /\ sdk = TxReplay(call.pre, g.deployer, g.gen_msgs, n)
         /\ \A i \in 1..(n - 1) : call.results[i] = "Ok"
         /\ call.pc = "loop" => n < Len(g.gen_msgs)
         /\ (call.pc = "done" /\ call.result.tag = "Err") =>
              LET tx == SingleTx(TxReplay(call.pre, g.deployer, g.gen_msgs, n - 1),
                                 g.deployer, g.gen_msgs[n])
              IN /\ n >= 1
                 /\ tx.result.tag = "Err"
                 /\ call.result.kind = tx.result.kind
         /\ (call.pc = "done" /\ call.result.tag = "Ok") =>
              /\ n = Len(g.gen_msgs)
              /\ call.result.value = info(sdk)[2]

\* init_chain stored a code and instantiated a contract on it
C20_Witness ==
    /\ InInitChain
    /\ call.pc = "done"
    /\ call.result.tag = "Ok"
    /\ Len(call.arg[1].gen_msgs) = 2
    /\ sdk.code_count = 1
    /\ sdk.codes[1].creator = Deployer
    /\ sdk.contract_count = 1

\* The second genesis message failed after the first one stored a code
InitChainFailedAtSecond ==
    /\ InInitChain
    /\ call.pc = "done"
    /\ call.result.tag = "Err"
    /\ call.midx = 2
    /\ sdk.code_count = 1

InitChainReturned ==
    /\ impl = "sdk" /\ call.op = "init_chain"
    /\ call.pc \in {"loop", "done", "aborted"}

\* C21: init_chain validates the deployer address of the genesis state: when
\* the deployer is not a valid address, init_chain fails and applies none of
\* the genesis messages.
C21_DeployerValidated ==
    (InitChainReturned /\ ~call.arg[1].malformed /\ call.arg[1].deployer = InvalidDeployer) =>
      /\ call.pc = "done"
      /\ call.result.tag = "Err"
      /\ call.dispatched = <<>>
      /\ sdk = call.pre

\* The app hash of a State: the digest of its height in big-endian bytes
AppHashOf(S) == Sha256(U64ToBeBytes(S.height))

InfoReturned == impl = "sdk" /\ call.op = "info" /\ call.pc = "done"

InitChainSucceeded == InitChainReturned /\ call.pc = "done" /\ call.result.tag = "Ok"

\* C22: the app hash returned by info(), commit() and init_chain is a
\* function of the state they return in and of nothing else, so that equal
\* states get equal app hashes whatever the operations that led to them; and
\* info() changes nothing, a second info() returning the same value.
C22_AppHashPure ==
    /\ InfoReturned =>
         /\ call.result.value = <<sdk.height, AppHashOf(sdk)>>
         /\ sdk = call.pre
         /\ info(sdk) = call.result.value
    /\ Committed => call.result.value = <<sdk.height, AppHashOf(sdk)>>
    /\ InitChainSucceeded => call.result.value = AppHashOf(sdk)

\* info() was called after a commit on a state holding a code
C22_Witness ==
    /\ InfoReturned
    /\ sdk.height = 1
    /\ sdk.code_count = 1

(***************************************************************************)
(* The cached overlay on its own.  `store` is the storage a message handler *)
(* holds: the committed store or one overlay over it.  The handler creates *)
(* the overlay, writes and deletes through it, runs sudo_contract on what  *)
(* it holds, flushes, and gives the overlay up.  In `call`: op and arg are *)
(* the last operation, sview the storage before it, spre the underlying    *)
(* store when the overlay was created, midx the flushes since then.        *)
(***************************************************************************)
\* A committed store holding code 1 and the bank contract's account
OverlayBase ==
    Raw(Insert(Insert(Insert(EmptyMap, CodeCountKey, 1), CodeKey(1), "wA"),
               AccountKey(BankAddr), [code_id |-> 1, label |-> BankLabel, admin |-> NoAdmin]))

\* The keys written through the overlay: the substores of two contracts
OverlayKeys == {SubstoreKey(derive_from_label(l), k) : l \in Labels, k \in Keys}

OverlayAllKeys == OverlayKeys \cup {CodeCountKey, CodeKey(1), AccountKey(BankAddr)}

OverlayOp(op, key, value, msg) ==
    [NoCall("idle") EXCEPT !.op = op,
                           !.arg = <<[key |-> key, value |-> value, msg |-> msg]>>,
                           !.sview = store,
                           !.spre = call.spre,
                           !.midx = call.midx]

OverlayInit ==
    /\ impl = "cached"
    /\ sdk = SdkDefault
    /\ stored = <<>>
    /\ store = OverlayBase
    /\ call = [NoCall("idle") EXCEPT !.spre = OverlayBase, !.sview = OverlayBase]

\* Cached::new(store)
OverlayNew ==
    /\ store.kind = "raw"
    /\ store' = CachedNew(store)
    /\ call' = [OverlayOp("new", CodeCountKey, "", WriteOk) EXCEPT !.spre = store, !.midx = 0]
    /\ UNCHANGED <<impl, sdk, stored>>

OverlaySet ==
    /\ store.kind = "cached"
    /\ \E key \in OverlayKeys, v \in Vals :
         /\ store' = Set(store, key, v)
         /\ call' = OverlayOp("set", key, v, WriteOk)
    /\ UNCHANGED <<impl, sdk, stored>>

OverlayDelete ==
    /\ store.kind = "cached"
    /\ \E key \in OverlayKeys :
         /\ store' = Delete(store, key)
         /\ call' = OverlayOp("delete", key, "", WriteOk)
    /\ UNCHANGED <<impl, sdk, stored>>

\* cache.flush()
OverlayFlush ==
    /\ store.kind = "cached"
    /\ store' = CachedFlush(store)
    /\ call' = [OverlayOp("flush", CodeCountKey, "", WriteOk) EXCEPT !.midx = 1]
    /\ UNCHANGED <<impl, sdk, stored>>

\* cache.recycle(), or the overlay is dropped: the underlying store is what
\* is left
OverlayDiscard ==
    /\ store.kind = "cached"
    /\ store' = CachedRecycle(store)
    /\ call' = OverlayOp("discard", CodeCountKey, "", WriteOk)
    /\ UNCHANGED <<impl, sdk, stored>>

\* sudo_contract on the storage held, the bank contract its target
OverlaySudo ==
    /\ \E msg \in ContractMsgs :
         LET r == sudo_contract(store, BankAddr, msg)
         IN /\ store' = r.state
            /\ call' = [OverlayOp("sudo", CodeCountKey, "", msg) EXCEPT !.result = r.result]
    /\ UNCHANGED <<impl, sdk, stored>>

OverlayNext ==
    \/ OverlayNew
    \/ OverlaySet
    \/ OverlayDelete
    \/ OverlayFlush
    \/ OverlayDiscard
    \/ OverlaySudo

OverlaySpec == OverlayInit /\ [][OverlayNext]_vars

OverlayDid(op) == impl = "cached" /\ call.op = op

\* The keys other than the one the last operation named read as before
OverlayOthersUnchanged ==
    \A k \in OverlayAllKeys : k # call.arg[1].key => Get(store, k) = Get(call.sview, k)

\* What the bank's substore reads under k after a call that ran `ops` on the
\* storage `before`
AfterOps(before, ops, k) ==
    LET w == LastWrite(ops, k) IN
    IF w = <<>> THEN Get(before, SubstoreKey(BankAddr, k))
    ELSE IF w[1].op = "set" THEN <<w[1].value>> ELSE <<>>

SudoSucceeded == call.result.tag = "Ok" /\ call.result.value.is_ok

\* C23: writes and deletes through the overlay are buffered, and a get
\* through the overlay sees the buffered value, or absence after a delete,
\* before the underlying one; after flush the underlying store holds exactly
\* the overlay's view; an overlay given up without a flush leaves the
\* underlying store identical to what it was when the overlay was created.
\* sudo_contract, run on the storage held, hands it back with the contract's
\* writes when the contract returned Ok and as it was otherwise.
C23_OverlayAlgebra ==
    /\ OverlayDid("set") =>
         /\ Get(store, call.arg[1].key) = <<call.arg[1].value>>
         /\ store.base = call.sview.base
         /\ OverlayOthersUnchanged
    /\ OverlayDid("delete") =>
         /\ Get(store, call.arg[1].key) = <<>>
         /\ store.base = call.sview.base
         /\ OverlayOthersUnchanged
    /\ OverlayDid("flush") =>
         /\ store.pending = EmptyMap
         /\ \A k \in OverlayAllKeys :
              /\ Get(store.base[1], k) = Get(call.sview, k)
              /\ Get(store, k) = Get(call.sview, k)
    /\ OverlayDid("discard") =>
         /\ store = call.sview.base[1]
         /\ call.midx = 0 => store = call.spre
    /\ OverlayDid("sudo") =>
         /\ store.kind = call.sview.kind
         /\ store.kind = "cached" => store.base = call.sview.base
         /\ IF SudoSucceeded
            THEN /\ \A k \in Keys :
                      Get(store, SubstoreKey(BankAddr, k))
                        = AfterOps(call.sview, call.arg[1].msg.ops, k)
                 /\ \A key \in OverlayAllKeys :
                      key.addr # BankAddr => Get(store, key) = Get(call.sview, key)
            ELSE store = call.sview

\* An overlay whose view differed from the underlying store was given up
\* without a flush
C23_Witness ==
    /\ OverlayDid("discard")
    /\ call.midx = 0
    /\ call.sview.pending # EmptyMap
    /\ \E k \in OverlayKeys : Get(call.sview, k) # Get(call.spre, k)
    /\ \E k \in OverlayKeys : Get(call.spre, k) # <<>>

(***************************************************************************)
(* Properties of the state machines, continued                             *)
(***************************************************************************)
\* C24: an Instantiate that fails with AccountFound because a contract
\* already exists at the derived address leaves the existing contract's store
\* exactly as it was: what the second instantiate call wrote is not applied.
C24_AccountFoundLeavesStore ==
    (PkgInstantiateRan /\ IsErr(call.result, "AccountFound")) =>
      \A k \in Keys :
        Get(store, SubstoreKey(call.arg[1].contract, k))
          = Get(call.spre, SubstoreKey(call.arg[1].contract, k))

\* An Execute with funds whose bank transfer succeeded
PkgTransferred ==
    /\ PkgExecuteRan
    /\ call.arg[1].funds # NoFunds
    /\ PkgAccount(call.spre, BankAddr) # <<>>
    /\ call.arg[1].bank.outcome \in {"ok", "submsg"}

\* C25: in execute_contract with non-empty funds the bank transfer and the
\* contract execution commit together or not at all: when the transfer
\* succeeds and the target's execute call then returns Err, traps, or the
\* target is not found, nothing the bank wrote is in the committed store;
\* when the execute call returns Ok, the bank's writes are in it.
C25_TransferAndExecuteAtomic ==
    PkgTransferred =>
      IF PkgSucceeded
      THEN call.arg[1].contract # BankAddr =>
             \A k \in Keys :
               Get(store, SubstoreKey(BankAddr, k))
                 = AfterOps(call.spre, call.arg[1].bank.ops, k)
      ELSE store = call.spre

\* The bank wrote v2 over its v1 and returned Ok, then the target, another
\* contract, returned Err
C25_Witness ==
    /\ PkgTransferred
    /\ ~PkgSucceeded
    /\ call.arg[1].contract # BankAddr
    /\ PkgAccount(call.spre, call.arg[1].contract) # <<>>
    /\ call.arg[1].msg.outcome = "err"
    /\ call.arg[1].bank.ops = <<SetOp("k", "v2")>>
    /\ Get(store, SubstoreKey(BankAddr, "k")) = <<"v1">>

\* A storage that is the committed store itself, no overlay around it
NoOverlay(s) == s.kind = "raw" /\ s.pending = EmptyMap /\ s.base = <<>>

\* C26: no pending overlay state survives a message: when a function of
\* execute.rs has returned, every overlay it created, the nested one of the
\* bank's sudo call included, has been flushed or given up; what it leaves is
\* the committed store, and the next message starts on a store without
\* buffered writes.
C26_NoOverlaySurvives ==
    impl = "pkg" => (NoOverlay(store) /\ NoOverlay(call.spre))

\* An Execute with funds, which nests the bank's overlay in the message's
\* own, came after another message and succeeded
C26_Witness ==
    /\ PkgTransferred
    /\ PkgSucceeded
    /\ call.arg[1].contract # BankAddr
    /\ store # call.spre

SdkCallOf(ops) ==
    impl = "sdk" /\ call.op \in ops /\ call.pc \in {"loop", "done", "aborted"}

\* C27: the block height changes only through commit: handle_tx, successful
\* or failed, init_chain, handle_query and info leave it as it was, init_chain
\* on a fresh state returns the app hash of height 0 whatever the genesis
\* messages, and commit changes nothing but the height.
C27_HeightOnlyByCommit ==
    /\ SdkCallOf({"handle_tx", "init_chain", "handle_query", "info"}) =>
         sdk.height = call.pre.height
    /\ InitChainSucceeded => call.result.value = Sha256(U64ToBeBytes(0))
    /\ Committed => sdk = [call.pre EXCEPT !.height = @ + 1]

\* A transaction failed at its second message on a chain at height 1
C27_Witness ==
    /\ TxFailedAtMsg
    /\ call.midx = 2
    /\ sdk.height = 1
    /\ sdk.code_count > call.pre.code_count

====
